---- MODULE Spec2Model ----
(***************************************************************************)
(* The stock-indicator pipeline of src/src/main.rs, src/src/buffer.rs and  *)
(* src/src/signal.rs as a state machine.                                   *)
(*                                                                         *)
(* Four xactor actors (StockDataDownloader, StockDataProcessor, FileSink,  *)
(* BufferSink) each own a FIFO mailbox and run one handler at a time to    *)
(* completion.  Broker<T> relays each successfully published message, in   *)
(* publish order, to the mailbox of every subscriber of T; all four        *)
(* subscriptions are made in Actor::started, before main publishes its     *)
(* first QuoteRequest.  The main task runs the interval loop; tide runs    *)
(* one `tail` task per HTTP request.                                       *)
(*                                                                         *)
(* f64 values are integers here; a quotient a / b is the pair <<a, b>>.    *)
(* Option values are sequences: None is <<>>, Some(v) is <<v>>.            *)
(* The field `cycle` of a message is an auxiliary tag (the tick whose      *)
(* QuoteRequest the message derives from); no guard or computation reads   *)
(* it.                                                                     *)
(***************************************************************************)
EXTENDS Integers, Sequences, FiniteSets, TLC

\* ------------------------------------------------------------------ bounds
MaxRequests == 3       \* publish calls of the scheduler explored
MaxQueries == 2        \* tail requests explored
MaxSample == 2         \* signals called on their own: finite samples are -MaxSample..MaxSample
MaxLen == 3            \* signals called on their own: longest series
MaxWindow == 4         \* signals called on their own: largest window_size
MaxQuotes == 3         \* Compute Stage on its own: longest of the short series
MaxTimestamp == 2      \* Compute Stage on its own: timestamps of the short series are 1..MaxTimestamp
MaxClose == 2          \* Compute Stage on its own: closes of the short series are 0..MaxClose

\* ------------------------------------------------------- program constants
\* main.rs:240 sets BUFFER_SIZE = 10000; the model scales it down so that
\* more pushes than BUFFER_SIZE are within the explored ticks.
BUFFER_SIZE == 2
\* main.rs:138, WindowedSMA { window_size: 30 }
WINDOW_SIZE == 30
\* signal.rs:91 and signal.rs:109: the fold seeds f64::MIN and f64::MAX,
\* below and above every close price of the model.
F64_MIN == -1000000
F64_MAX == 1000000
\* f64::NEG_INFINITY and f64::INFINITY, the two f64 values that compare below
\* f64::MIN and above f64::MAX (a series is a &[f64], signal.rs:23)
NEG_INFINITY == F64_MIN - 1
INFINITY == F64_MAX + 1

\* ------------------------------------------------------------------ inputs
\* Opts.symbols after split(',') and trim (main.rs:243-247)
Symbols == <<"AAPL", "MSFT">>
\* Opts.from parsed (main.rs:242)
FromSet == {0}
\* wall clock when the interval loop starts
StartTime == 10
\* concurrent HTTP clients and the path parameters they send to /tail/:n
Callers == {"c1", "c2"}
Params == {"0", "2", "x"}

None == <<>>
Some(v) == <<v>>

Min(a, b) == IF a < b THEN a ELSE b
Max(a, b) == IF a > b THEN a ELSE b

Front(s) == SubSeq(s, 1, Len(s) - 1)
Last(s) == s[Len(s)]

\* ---------------------------------------------------------------- signal.rs
Ratio(a, b) == <<a, b>>

RECURSIVE SumSeq(_)
SumSeq(s) == IF s = <<>> THEN 0 ELSE Head(s) + SumSeq(Tail(s))

RECURSIVE FoldMax(_, _)
FoldMax(acc, s) == IF s = <<>> THEN acc ELSE FoldMax(Max(acc, Head(s)), Tail(s))

RECURSIVE FoldMin(_, _)
FoldMin(acc, s) == IF s = <<>> THEN acc ELSE FoldMin(Min(acc, Head(s)), Tail(s))

\* (variant: the relative difference divides by first even when it is 0)
PriceDifferenceUnguarded(series) ==
    IF series # <<>>
    THEN LET first == Head(series)
             last == Last(series)
             abs_diff == last - first
         IN Some(<<abs_diff, Ratio(abs_diff, first)>>)
    ELSE None
PriceDifference(series) ==
    IF series # <<>>
    THEN LET first == Head(series)
             last == Last(series)
             abs_diff == last - first
             denom == IF first = 0 THEN 1 ELSE first
         IN Some(<<abs_diff, Ratio(abs_diff, denom)>>)
    ELSE None

\* (variant: a window of one sample is accepted)
WindowedSMAFromOne(window_size, series) ==
    IF series # <<>> /\ window_size > 0
    THEN Some([i \in 1..Max(0, Len(series) - window_size + 1) |->
                  Ratio(SumSeq(SubSeq(series, i, i + window_size - 1)), window_size)])
    ELSE None
WindowedSMA(window_size, series) ==
    IF series # <<>> /\ window_size > 1
    THEN Some([i \in 1..Max(0, Len(series) - window_size + 1) |->
                  Ratio(SumSeq(SubSeq(series, i, i + window_size - 1)), window_size)])
    ELSE None

MaxPrice(series) == IF series = <<>> THEN None ELSE Some(FoldMax(F64_MIN, series))

MinPrice(series) == IF series = <<>> THEN None ELSE Some(FoldMin(F64_MAX, series))

unwrap_or(opt, default) == IF opt = None THEN default ELSE opt[1]

\* ------------------------------------------------------------ main.rs: data
QuoteRequest(symbol, from_, to, cycle) ==
    [symbol |-> symbol, from |-> from_, to |-> to, cycle |-> cycle]

Quote(timestamp, close) == [timestamp |-> timestamp, close |-> close]

\* What get_quote_history may answer for a request: an error, a response
\* whose quotes() fails, or a response with a series (possibly empty, possibly
\* not sorted by timestamp).
SeriesFor(req) ==
    { <<>>, << Quote(req.to, 4), Quote(req.to - 1, 2) >> }

ProviderOutcomes(req) ==
    { [kind |-> "err", quotes |-> <<>>], [kind |-> "badresponse", quotes |-> <<>>] }
    \cup { [kind |-> "ok", quotes |-> s] : s \in SeriesFor(req) }

\* usize::from_str on the path parameter (main.rs:294)
\* (variant: a parameter that is not a number counts as 0)
ParseOrZero(p) ==
    CASE p = "0" -> Some(0)
      [] p = "2" -> Some(2)
      [] OTHER -> Some(0)
ParseUsize(p) ==
    CASE p = "0" -> Some(0)
      [] p = "2" -> Some(2)
      [] OTHER -> None


\* --------------------------------------------------- main.rs: Compute Stage
\* sort_by_cached_key(|k| k.timestamp): a stable sort, ascending by key
\* (variant: a sort that puts a sample before the earlier samples of its key)
RECURSIVE InsertBeforeTies(_, _)
InsertBeforeTies(sorted, q) ==
    IF sorted = <<>> THEN <<q>>
    ELSE IF Last(sorted).timestamp < q.timestamp THEN Append(sorted, q)
    ELSE Append(InsertBeforeTies(Front(sorted), q), Last(sorted))
RECURSIVE InsertByTimestamp(_, _)
InsertByTimestamp(sorted, q) ==
    IF sorted = <<>> THEN <<q>>
    ELSE IF Last(sorted).timestamp <= q.timestamp THEN Append(sorted, q)
    ELSE Append(InsertByTimestamp(Front(sorted), q), Last(sorted))

RECURSIVE SortByTimestamp(_)
SortByTimestamp(quotes) ==
    IF quotes = <<>> THEN <<>>
    ELSE InsertByTimestamp(SortByTimestamp(Front(quotes)), Last(quotes))

\* main.rs:154, *sma.last().unwrap_or(&0.0)
\* (variant: sma.first())
FirstOrZero(sma) == IF sma = <<>> THEN Ratio(0, 1) ELSE Head(sma)
LastOrZero(sma) == IF sma = <<>> THEN Ratio(0, 1) ELSE Last(sma)

\* main.rs:130-155: the PerformanceIndicators built from a non-empty Quotes
Indicators(msg) ==
    LET data == SortByTimestamp(msg.quotes)
        last_date == Last(data).timestamp
        closes == [k \in 1..Len(data) |-> data[k].close]
        period_max == unwrap_or(MaxPrice(closes), 0)
        period_min == unwrap_or(MinPrice(closes), 0)
        last_price == Last(closes)
        diff == unwrap_or(PriceDifference(closes), <<0, Ratio(0, 1)>>)
        sma == WindowedSMA(WINDOW_SIZE, closes)[1]
    IN [ timestamp |-> last_date,
         symbol |-> msg.symbol,
         price |-> last_price,
         pct_change |-> diff[2],
         period_min |-> period_min,
         period_max |-> period_max,
         last_sma |-> LastOrZero(sma),
         cycle |-> msg.cycle ]

\* main.rs:128, the test that decides whether a record is produced
\* (variant: a series counts as data only when it is longer than two samples)
HasLongSeries(quotes) == Len(quotes) > 2
HasData(quotes) == quotes # <<>>

\* ---------------------------------------------------- main.rs: Fetch Stage
\* main.rs:81-105: the Quotes built from the provider's answer
\* (variant: the error branches answer Quotes::default(), whose symbol is "")
QuotesDefaultOnError(req, outcome) ==
    IF outcome.kind = "ok"
    THEN [symbol |-> req.symbol, quotes |-> outcome.quotes, cycle |-> req.cycle]
    ELSE [symbol |-> "", quotes |-> <<>>, cycle |-> req.cycle]
QuotesFor(req, outcome) ==
    IF outcome.kind = "ok"
    THEN [symbol |-> req.symbol, quotes |-> outcome.quotes, cycle |-> req.cycle]
    ELSE [symbol |-> req.symbol, quotes |-> <<>>, cycle |-> req.cycle]

\* ------------------------------------------------------ main.rs: FileSink
\* main.rs:220-230: the CSV row written for a record
FormatRow(msg) ==
    << msg.timestamp, msg.symbol, msg.price,
       Ratio(msg.pct_change[1] * 100, msg.pct_change[2]),
       msg.period_min, msg.period_max, msg.last_sma >>

\* buffer.rs:47 and main.rs:203: the actors subscribed to PerformanceIndicators
\* (variant: FileSink does not subscribe)
OnlyBufferSink == {"BufferSink"}
PISubscribers == {"BufferSink", "FileSink"}

\* ---------------------------------------------------- buffer.rs: VecDeque
\* (variant: push_front)
push_front(q, v) == <<v>> \o q
push_back(q, v) == Append(q, v)

\* Option<(value, rest)>
\* (variant: front().cloned(), which leaves the element in the deque)
front_cloned(q) == IF q = <<>> THEN None ELSE Some(<<Head(q), q>>)
pop_front(q) == IF q = <<>> THEN None ELSE Some(<<Head(q), Tail(q)>>)

\* buffer.rs:32
\* (variant: the whole length, whatever n)
WholeLength(n, len) == len
MaxAmount(n, len) == Min(n, len)

\* buffer.rs:26-32: the drain handler awaits nothing and tests nothing before
\* its loop; it proceeds with whatever length data_sink has.
\* (variant: a drain that waits until n records are resident)
WaitsForRecords(n, len) == len >= n
DrainProceeds(n, len) == TRUE

\* An actor takes the next message of its mailbox only when its handler is
\* not running: handle takes &mut self and is awaited by the actor's loop
\* (buffer.rs:19, buffer.rs:26).
\* (variant: a loop that takes the next message while a handler runs)
AlwaysReady(pc) == TRUE
BufferSinkReady(pc) == pc = "idle"

\* main.rs:77: the same for StockDataDownloader, whose handler awaits the
\* provider (main.rs:81-83) before it returns.
DownloaderReady(pc) == pc = "idle"

\* Broker::publish (main.rs:106, 157, 278): the message joins each subscriber's
\* mailbox behind the messages already there.
\* (variant: it goes in front of them)
RelayFirst(mailbox, msg) == <<msg>> \o mailbox
Relay(mailbox, msg) == Append(mailbox, msg)

PIMsg(rec) == <<"pi", rec>>
BDRMsg(n, caller) == <<"bdr", n, caller>>


\* ------------------------------------------------------------------- state
VARIABLES
    from,         \* main: the fixed start of every fetch window
    clock,        \* wall clock, in interval periods
    schedPc,      \* main loop: "wait" (interval.next), "publish" (for loop), "done"
    now,          \* main loop: Utc::now() read at the start of the tick
    symIdx,       \* main loop: position of the for loop in Symbols
    tick,         \* number of ticks started
    dlMailbox,    \* StockDataDownloader: QuoteRequests delivered, not yet handled
    dlPc,         \* StockDataDownloader: "idle", "fetching" (awaiting the provider),
                  \* "publish", "eprint" (the publish failed)
    dlMsg,        \* StockDataDownloader handler: msg, as an Option
    dlResult,     \* StockDataDownloader handler: what the provider answered, as an Option
    procMailbox,  \* StockDataProcessor: Quotes delivered, not yet handled
    procPc,       \* StockDataProcessor: "idle", or "eprint" (the publish failed)
    fileMailbox,  \* FileSink: PerformanceIndicators delivered, not yet handled
    writer,       \* FileSink.writer.is_some()
    rows,         \* FileSink: rows written after the header
    bufMailbox,   \* BufferSink: PerformanceIndicators and BufferDataRequests
    bufPc,        \* BufferSink: "idle", or "loop"/"ret" inside the drain handler
    data_sink,    \* BufferSink.data_sink
    drainMsg,     \* drain handler: msg, as an Option
    max_amount,   \* drain handler: local
    i,            \* drain handler: loop counter
    resp,         \* drain handler: local
    callerPc,     \* tail task of each client: "idle", "awaiting" (call), "respond",
                  \* "failed" (`?` is returning the parse error)
    param,        \* tail task: req.param("n"), as an Option
    amount,       \* tail task: local
    data,         \* tail task: local, the Vec the call returned
    queries,      \* tail requests made so far
    sigSeries,    \* a signal called on its own: the series passed to calculate
    sigWindow,    \* a signal called on its own: WindowedSMA.window_size
    sigCalled,    \* a signal called on its own: "none", or the signal that ran
    sigResult,    \* a signal called on its own: what calculate returned
    \* history
    qrLog,        \* publish calls of main: [cycle, req, ok]
    piLog,        \* PerformanceIndicators published, in publish order
    pushed,       \* records pushed into data_sink, in push order
    drained,      \* records returned by completed drains, in the order returned
    before        \* data_sink when the running drain read its length

schedVars == <<from, clock, schedPc, now, symIdx, tick, qrLog>>
dlVars == <<dlPc, dlMsg, dlResult>>
procVars == <<procPc, piLog>>
fileVars == <<writer, rows>>
drainVars == <<bufPc, drainMsg, max_amount, i, resp, before>>
bufVars == <<data_sink, pushed, drained>>
tailVars == <<callerPc, param, amount, data, queries>>
mailboxes == <<dlMailbox, procMailbox, fileMailbox, bufMailbox>>
sigVars == <<sigSeries, sigWindow, sigCalled, sigResult>>

\* everything but the tail tasks' own locals and the signals called on their own
pipelineVars == <<schedVars, dlVars, procVars, fileVars, drainVars, bufVars, mailboxes>>

vars == <<schedVars, dlVars, procVars, fileVars, drainVars, bufVars, tailVars, mailboxes,
          sigVars>>

\* The state when main reaches its interval loop (main.rs:274): the four
\* actors are started and subscribed and the file is created.  What
\* StockDataProcessor's mailbox holds is said by MainStarted (nothing) and by
\* ProcInit (one Quotes).
ActorsStarted ==
    /\ from \in FromSet
    /\ clock = StartTime
    /\ schedPc = "wait"
    /\ now = StartTime
    /\ symIdx = 1
    /\ tick = 0
    /\ dlMailbox = <<>> /\ dlPc = "idle" /\ dlMsg = None /\ dlResult = None
    /\ procPc = "idle"
    /\ fileMailbox = <<>> /\ writer = TRUE /\ rows = <<>>
    /\ bufMailbox = <<>> /\ bufPc = "idle" /\ data_sink = <<>>
    /\ drainMsg = None /\ max_amount = 0 /\ i = 0 /\ resp = <<>>
    /\ callerPc = [c \in Callers |-> "idle"]
    /\ param = [c \in Callers |-> None]
    /\ amount = [c \in Callers |-> 0]
    /\ data = [c \in Callers |-> <<>>]
    /\ queries = 0
    /\ qrLog = <<>> /\ piLog = <<>>
    /\ pushed = <<>> /\ drained = <<>> /\ before = <<>>

MainStarted == ActorsStarted /\ procMailbox = <<>>

\* no signal is called outside the Compute Stage
NoSignalCall ==
    /\ sigSeries = <<>> /\ sigWindow = 0 /\ sigCalled = "none" /\ sigResult = None

Init == MainStarted /\ NoSignalCall

\* --------------------------------------------------- main: the interval loop
\* main.rs:275: the loop awaits interval.next() and nothing else; publish
\* (main.rs:278) hands the request to the broker and returns.
\* (variant: the loop also awaits the end of the work of the previous tick)
PreviousTickDone ==
    /\ dlMailbox = <<>> /\ dlPc = "idle"
    /\ procMailbox = <<>> /\ procPc = "idle"
IntervalElapsed == TRUE

\* main.rs:275-276: the interval fires and the tick reads the clock once
SchedTick ==
    /\ schedPc = "wait"
    /\ IntervalElapsed
    /\ Len(qrLog) < MaxRequests
    /\ tick' = tick + 1
    /\ clock' = clock + 1
    /\ now' = clock'
    /\ symIdx' = 1
    /\ schedPc' = IF Len(Symbols) = 0 THEN "wait" ELSE "publish"
    /\ UNCHANGED <<sigVars, from, qrLog, dlVars, procVars, fileVars, drainVars, bufVars,
                   tailVars, mailboxes>>

\* main.rs:278-282: the request published for one symbol of the tick
\* (variant: a window of one period ending at `to`)
SlidingRequest(symbol, from_, to, cycle) == QuoteRequest(symbol, to - 1, to, cycle)
NextRequest(symbol, from_, to, cycle) == QuoteRequest(symbol, from_, to, cycle)

\* main.rs:277-286, one iteration of the for loop whose publish succeeds
SchedPublish ==
    /\ schedPc = "publish"
    /\ symIdx <= Len(Symbols)
    /\ Len(qrLog) < MaxRequests
    /\ LET req == NextRequest(Symbols[symIdx], from, now, tick)
       IN /\ dlMailbox' = Relay(dlMailbox, req)
          /\ qrLog' = Append(qrLog, [cycle |-> tick, req |-> req, ok |-> TRUE])
    /\ symIdx' = symIdx + 1
    /\ schedPc' = IF symIdx' > Len(Symbols) THEN "wait" ELSE "publish"
    /\ UNCHANGED <<sigVars, from, clock, now, tick, dlVars, procVars, fileVars, drainVars,
                   bufVars, tailVars, procMailbox, fileMailbox, bufMailbox>>

\* main.rs:284: where the loop goes after a failed publish
\* (variant: `break`, which leaves the for loop only)
BreakInner == "wait"
BreakOuter == "done"

\* main.rs:278-285, an iteration whose publish fails: break 'outer
SchedPublishFails ==
    /\ schedPc = "publish"
    /\ symIdx <= Len(Symbols)
    /\ Len(qrLog) < MaxRequests
    /\ LET req == NextRequest(Symbols[symIdx], from, now, tick)
       IN qrLog' = Append(qrLog, [cycle |-> tick, req |-> req, ok |-> FALSE])
    /\ schedPc' = BreakOuter
    /\ UNCHANGED <<sigVars, from, clock, now, symIdx, tick, dlVars, procVars, fileVars,
                   drainVars, bufVars, tailVars, mailboxes>>

\* ------------------------------------------------------ StockDataDownloader
\* main.rs:77-83: the handler takes a request and awaits the provider
DlBegin ==
    /\ DownloaderReady(dlPc)
    /\ dlMailbox # <<>>
    /\ dlMsg' = Some(Head(dlMailbox))
    /\ dlMailbox' = Tail(dlMailbox)
    /\ dlPc' = "fetching"
    /\ UNCHANGED <<sigVars, schedVars, dlResult, procVars, fileVars, drainVars,
                   bufVars, tailVars, procMailbox, fileMailbox, bufMailbox>>

\* main.rs:81-84: get_quote_history returns
DlProviderReturns ==
    /\ dlPc = "fetching"
    /\ \E outcome \in ProviderOutcomes(dlMsg[1]) : dlResult' = Some(outcome)
    /\ dlPc' = "publish"
    /\ UNCHANGED <<sigVars, schedVars, dlMsg, procVars, fileVars, drainVars,
                   bufVars, tailVars, mailboxes>>

\* main.rs:84-106: the Quotes are built and published
DlPublishes ==
    /\ dlPc = "publish"
    /\ procMailbox' = Relay(procMailbox, QuotesFor(dlMsg[1], dlResult[1]))
    /\ dlPc' = "idle"
    /\ dlMsg' = None
    /\ dlResult' = None
    /\ UNCHANGED <<sigVars, schedVars, procVars, fileVars, drainVars, bufVars, tailVars,
                   dlMailbox, fileMailbox, bufMailbox>>

\* main.rs:106: publish returns Err
DlPublishFails ==
    /\ dlPc = "publish"
    /\ dlPc' = "eprint"
    /\ UNCHANGED <<sigVars, schedVars, dlMsg, dlResult, procVars, fileVars, drainVars, bufVars,
                   tailVars, mailboxes>>

\* main.rs:107-109: the error is printed and the handler returns
DlLogsError ==
    /\ dlPc = "eprint"
    /\ dlPc' = "idle"
    /\ dlMsg' = None
    /\ dlResult' = None
    /\ UNCHANGED <<sigVars, schedVars, procVars, fileVars, drainVars, bufVars, tailVars,
                   mailboxes>>

\* ------------------------------------------------------- StockDataProcessor
\* main.rs:126-170 for a Quotes with data: the record is built and published
ProcPublishes ==
    /\ procPc = "idle"
    /\ procMailbox # <<>>
    /\ HasData(Head(procMailbox).quotes)
    /\ LET rec == Indicators(Head(procMailbox))
       IN /\ bufMailbox' = IF "BufferSink" \in PISubscribers
                           THEN Relay(bufMailbox, PIMsg(rec)) ELSE bufMailbox
          /\ fileMailbox' = IF "FileSink" \in PISubscribers
                            THEN Relay(fileMailbox, rec) ELSE fileMailbox
          /\ piLog' = Append(piLog, rec)
    /\ procMailbox' = Tail(procMailbox)
    /\ UNCHANGED <<sigVars, schedVars, dlVars, procPc, fileVars, drainVars, bufVars,
                   tailVars, dlMailbox>>

\* main.rs:126-157 for a Quotes with data when publish returns Err
ProcPublishFails ==
    /\ procPc = "idle"
    /\ procMailbox # <<>>
    /\ HasData(Head(procMailbox).quotes)
    /\ procPc' = "eprint"
    /\ procMailbox' = Tail(procMailbox)
    /\ UNCHANGED <<sigVars, schedVars, dlVars, piLog, fileVars, drainVars, bufVars,
                   tailVars, dlMailbox, fileMailbox, bufMailbox>>

\* main.rs:158-170: the error and the row are printed and the handler returns
ProcLogsError ==
    /\ procPc = "eprint"
    /\ procPc' = "idle"
    /\ UNCHANGED <<sigVars, schedVars, dlVars, piLog, fileVars, drainVars, bufVars,
                   tailVars, mailboxes>>

\* main.rs:171-173: "Got nothing"
ProcGotNothing ==
    /\ procPc = "idle"
    /\ procMailbox # <<>>
    /\ ~HasData(Head(procMailbox).quotes)
    /\ procMailbox' = Tail(procMailbox)
    /\ UNCHANGED <<sigVars, schedVars, dlVars, procVars, fileVars, drainVars,
                   bufVars, tailVars, dlMailbox, fileMailbox, bufMailbox>>

\* ----------------------------------------------------------------- FileSink
\* main.rs:218-232
FileHandle ==
    /\ fileMailbox # <<>>
    /\ rows' = IF writer THEN Append(rows, FormatRow(Head(fileMailbox))) ELSE rows
    /\ fileMailbox' = Tail(fileMailbox)
    /\ UNCHANGED <<sigVars, schedVars, dlVars, procVars, writer, drainVars, bufVars, tailVars,
                   dlMailbox, procMailbox, bufMailbox>>

\* --------------------------------------------------------------- BufferSink
\* buffer.rs:19-21
BufPush ==
    /\ BufferSinkReady(bufPc)
    /\ bufMailbox # <<>>
    /\ Head(bufMailbox)[1] = "pi"
    /\ data_sink' = push_back(data_sink, Head(bufMailbox)[2])
    /\ pushed' = Append(pushed, Head(bufMailbox)[2])
    /\ bufMailbox' = Tail(bufMailbox)
    /\ UNCHANGED <<sigVars, schedVars, dlVars, procVars, fileVars, drainVars, drained, tailVars,
                   dlMailbox, procMailbox, fileMailbox>>

\* buffer.rs:26-32: the drain handler starts and reads the length
BufDrainBegin ==
    /\ BufferSinkReady(bufPc)
    /\ bufMailbox # <<>>
    /\ Head(bufMailbox)[1] = "bdr"
    /\ DrainProceeds(Head(bufMailbox)[2], Len(data_sink))
    /\ drainMsg' = Some(Head(bufMailbox))
    /\ bufMailbox' = Tail(bufMailbox)
    /\ resp' = <<>>
    /\ max_amount' = MaxAmount(Head(bufMailbox)[2], Len(data_sink))
    /\ i' = 0
    /\ before' = data_sink
    /\ bufPc' = "loop"
    /\ UNCHANGED <<sigVars, schedVars, dlVars, procVars, fileVars, bufVars, tailVars,
                   dlMailbox, procMailbox, fileMailbox>>

\* buffer.rs:33-39: one iteration of the for loop
BufDrainIter ==
    /\ bufPc = "loop"
    /\ i < max_amount
    /\ LET v == pop_front(data_sink)
       IN IF v # None
          THEN /\ resp' = Append(resp, v[1][1])
               /\ data_sink' = v[1][2]
               /\ i' = i + 1
               /\ bufPc' = "loop"
          ELSE /\ bufPc' = "ret"
               /\ UNCHANGED <<resp, data_sink, i>>
    /\ UNCHANGED <<sigVars, schedVars, dlVars, procVars, fileVars, drainMsg, max_amount, before,
                   pushed, drained, tailVars, mailboxes>>

\* buffer.rs:40 and main.rs:297: resp goes back to the tail task that called
BufDrainReturn ==
    /\ \/ bufPc = "loop" /\ i >= max_amount
       \/ bufPc = "ret"
    /\ LET caller == drainMsg[1][3]
       IN /\ data' = [data EXCEPT ![caller] = resp]
          /\ callerPc' = [callerPc EXCEPT ![caller] = "respond"]
    /\ drained' = drained \o resp
    /\ bufPc' = "idle"
    /\ drainMsg' = None
    /\ max_amount' = 0 /\ i' = 0 /\ resp' = <<>> /\ before' = <<>>
    /\ UNCHANGED <<sigVars, schedVars, dlVars, procVars, fileVars, data_sink, pushed, param,
                   amount, queries, mailboxes>>

\* --------------------------------------------------------------------- tail
\* main.rs:294-297: n parses and the BufferDataRequest is sent
TailCall(c, p) ==
    /\ callerPc[c] = "idle"
    /\ queries < MaxQueries
    /\ ParseUsize(p) # None
    /\ param' = [param EXCEPT ![c] = Some(p)]
    /\ amount' = [amount EXCEPT ![c] = ParseUsize(p)[1]]
    /\ bufMailbox' = Append(bufMailbox, BDRMsg(amount'[c], c))
    /\ callerPc' = [callerPc EXCEPT ![c] = "awaiting"]
    /\ queries' = queries + 1
    /\ UNCHANGED <<sigVars, schedVars, dlVars, procVars, fileVars, drainVars, bufVars, data,
                   dlMailbox, procMailbox, fileMailbox>>

\* main.rs:294: parse fails and `?` leaves tail with the error
TailBadParam(c, p) ==
    /\ callerPc[c] = "idle"
    /\ queries < MaxQueries
    /\ ParseUsize(p) = None
    /\ param' = [param EXCEPT ![c] = Some(p)]
    /\ callerPc' = [callerPc EXCEPT ![c] = "failed"]
    /\ queries' = queries + 1
    /\ UNCHANGED <<sigVars, schedVars, dlVars, procVars, fileVars, drainVars, bufVars,
                   amount, data, mailboxes>>

\* main.rs:293-294: tide turns the Err that tail returned into the error
\* response; the task ends
TailFails(c) ==
    /\ callerPc[c] = "failed"
    /\ callerPc' = [callerPc EXCEPT ![c] = "idle"]
    /\ param' = [param EXCEPT ![c] = None]
    /\ UNCHANGED <<sigVars, schedVars, dlVars, procVars, fileVars, drainVars, bufVars,
                   amount, data, queries, mailboxes>>

\* main.rs:299-301: 200 with data as the JSON body; the task ends
TailRespond(c) ==
    /\ callerPc[c] = "respond"
    /\ callerPc' = [callerPc EXCEPT ![c] = "idle"]
    /\ param' = [param EXCEPT ![c] = None]
    /\ amount' = [amount EXCEPT ![c] = 0]
    /\ data' = [data EXCEPT ![c] = <<>>]
    /\ UNCHANGED <<sigVars, schedVars, dlVars, procVars, fileVars, drainVars, bufVars,
                   queries, mailboxes>>

TailQuery == \E c \in Callers, p \in Params : TailCall(c, p)
TailError == \E c \in Callers, p \in Params : TailBadParam(c, p)
TailOk == \E c \in Callers : TailRespond(c)
TailErr == \E c \in Callers : TailFails(c)

Next ==
    \/ SchedTick
    \/ SchedPublish
    \/ SchedPublishFails
    \/ DlBegin
    \/ DlProviderReturns
    \/ DlPublishes
    \/ DlPublishFails
    \/ DlLogsError
    \/ ProcPublishes
    \/ ProcPublishFails
    \/ ProcLogsError
    \/ ProcGotNothing
    \/ FileHandle
    \/ BufPush
    \/ BufDrainBegin
    \/ BufDrainIter
    \/ BufDrainReturn
    \/ TailQuery
    \/ TailError
    \/ TailOk
    \/ TailErr

Spec == Init /\ [][Next]_vars

\* BufferSink's actor loop is scheduled fairly: a handler that can take its
\* next step eventually takes it.  Nothing is assumed of the provider, of the
\* other actors or of main.
BufferSinkFair ==
    /\ WF_vars(BufPush)
    /\ WF_vars(BufDrainBegin)
    /\ WF_vars(BufDrainIter)
    /\ WF_vars(BufDrainReturn)

FairSpec == Init /\ [][Next]_vars /\ BufferSinkFair


\* ------------------------------------------- signal.rs: a signal on its own
\* The series and window sizes a caller of signal.rs may pass (signal.rs:23,
\* signal.rs:57): every series of at most MaxLen samples, every window size
\* up to MaxWindow.
SeqsOf(S, n) == UNION {[1..k -> S] : k \in 0..n}

Samples == (-MaxSample..MaxSample) \cup {NEG_INFINITY, INFINITY}

\* Sums and differences of infinities are NaN or infinite in f64 and have no
\* counterpart in integers: the two signals that do arithmetic are called on
\* finite samples only.  MaxPrice and MinPrice only compare.
Finite(series) == \A k \in 1..Len(series) : F64_MIN <= series[k] /\ series[k] <= F64_MAX

SigInit ==
    /\ MainStarted
    /\ sigSeries \in SeqsOf(Samples, MaxLen)
    /\ sigWindow \in 0..MaxWindow
    /\ sigCalled = "none"
    /\ sigResult = None

\* signal.rs:64-75
CalcWindowedSMA ==
    /\ sigCalled = "none"
    /\ Finite(sigSeries)
    /\ sigResult' = WindowedSMA(sigWindow, sigSeries)
    /\ sigCalled' = "WindowedSMA"
    /\ UNCHANGED <<sigSeries, sigWindow, pipelineVars, tailVars>>

\* signal.rs:39-50
CalcPriceDifference ==
    /\ sigCalled = "none"
    /\ Finite(sigSeries)
    /\ sigResult' = PriceDifference(sigSeries)
    /\ sigCalled' = "PriceDifference"
    /\ UNCHANGED <<sigSeries, sigWindow, pipelineVars, tailVars>>

\* signal.rs:87-93
CalcMaxPrice ==
    /\ sigCalled = "none"
    /\ sigResult' = MaxPrice(sigSeries)
    /\ sigCalled' = "MaxPrice"
    /\ UNCHANGED <<sigSeries, sigWindow, pipelineVars, tailVars>>

\* signal.rs:105-111
CalcMinPrice ==
    /\ sigCalled = "none"
    /\ sigResult' = MinPrice(sigSeries)
    /\ sigCalled' = "MinPrice"
    /\ UNCHANGED <<sigSeries, sigWindow, pipelineVars, tailVars>>

SigNext ==
    \/ CalcWindowedSMA
    \/ CalcPriceDifference
    \/ CalcMaxPrice
    \/ CalcMinPrice

SigSpec == SigInit /\ [][SigNext]_vars


\* --------------------------------------- main.rs: the Compute Stage on its own
\* The Quotes a StockDataProcessor may be handed (main.rs:126): every series
\* of at most MaxQuotes samples, in any arrival order and with timestamps
\* that may repeat, and series around the window size, in ascending and in
\* descending order of timestamp.
ShortQuotes ==
    SeqsOf({Quote(t, c) : t \in 1..MaxTimestamp, c \in 0..MaxClose}, MaxQuotes)

LongQuotes ==
    UNION { { [k \in 1..n |-> Quote(k, k)], [k \in 1..n |-> Quote(n + 1 - k, k)] } :
            n \in (WINDOW_SIZE - 1)..(WINDOW_SIZE + 1) }

ProcInit ==
    /\ ActorsStarted
    /\ NoSignalCall
    /\ \E q \in ShortQuotes \cup LongQuotes :
           procMailbox = << [symbol |-> Symbols[1], quotes |-> q, cycle |-> 1] >>

ProcNext ==
    \/ ProcPublishes
    \/ ProcPublishFails
    \/ ProcLogsError
    \/ ProcGotNothing
    \/ FileHandle
    \/ BufPush

ProcSpec == ProcInit /\ [][ProcNext]_vars


\* ================================================================== claims
IsPrefix(a, b) == Len(a) <= Len(b) /\ a = SubSeq(b, 1, Len(a))

Range(s) == {s[k] : k \in 1..Len(s)}

CountIn(r, s) == Cardinality({k \in 1..Len(s) : s[k] = r})

NoRepeat(s) == \A j, k \in 1..Len(s) : j # k => s[j] # s[k]

\* the PerformanceIndicators waiting in BufferSink's mailbox, in order
PendingPush ==
    LET pis == SelectSeq(bufMailbox, LAMBDA m : m[1] = "pi")
    IN [k \in 1..Len(pis) |-> pis[k][2]]

\* the drain handler has left its loop and is about to return resp
DrainDone == bufPc = "ret" \/ (bufPc = "loop" /\ i >= max_amount)

\* C1: whenever BufferSink is between handlers, the records returned by all
\* drains so far plus the records resident in data_sink are as many as the
\* pushes so far, and every pushed record occurs in them exactly as often as
\* it was pushed.
C1_Conservation ==
    bufPc = "idle" =>
        /\ Len(drained) + Len(data_sink) = Len(pushed)
        /\ \A r \in Range(pushed) \cup Range(drained \o data_sink) :
               CountIn(r, drained \o data_sink) = CountIn(r, pushed)

C1_Witness ==
    bufPc = "idle" /\ Len(pushed) = 3 /\ Len(drained) = 2 /\ Len(data_sink) = 1

\* C2: the concatenation of the results of all drains, in the order the
\* drains were handled, is a prefix of the sequence of pushed records.
C2_FIFO == IsPrefix(drained \o resp, pushed)

C2_Witness ==
    Len(drained) = 3 /\ drained[1] # drained[2] /\ drained[2] # drained[3]

\* C3: a drain(n) on a buffer holding L records returns exactly its first
\* min(n, L) records and leaves the other L - min(n, L) in their order (so an
\* empty sequence when L = 0 or n = 0), and the Vec a tail(n) task gets back
\* is no longer than n.
C3_Drain ==
    /\ DrainDone =>
           LET n == drainMsg[1][2]
               k == IF n < Len(before) THEN n ELSE Len(before)
           IN /\ resp = SubSeq(before, 1, k)
              /\ data_sink = SubSeq(before, k + 1, Len(before))
    /\ \A c \in Callers : callerPc[c] = "respond" => Len(data[c]) <= amount[c]

C3_Witness ==
    /\ DrainDone
    /\ drainMsg[1][2] = 2
    /\ Len(before) = 3
    /\ resp = SubSeq(before, 1, 2)
    /\ data_sink = <<before[3]>>

\* C4: a drain's length check and removals are one step with respect to
\* pushes and other drains: while the drain handler runs, what it has removed
\* followed by what is resident is exactly the buffer it read the length of,
\* whatever waits in the mailbox; and no record is returned twice.
C4_DrainAtomic ==
    /\ bufPc # "idle" =>
           /\ resp \o data_sink = before
           /\ max_amount <= Len(before)
           /\ i = Len(resp)
    /\ NoRepeat(drained \o resp)

C4_Witness ==
    /\ bufPc = "loop"
    /\ i = 1
    /\ \E k \in 1..Len(bufMailbox) : bufMailbox[k][1] = "pi"
    /\ \E k \in 1..Len(bufMailbox) :
           bufMailbox[k][1] = "bdr" /\ bufMailbox[k][3] # drainMsg[1][3]

\* C5: the number of records resident in data_sink never exceeds the
\* capacity the buffer was constructed with.
C5_Bounded == Len(data_sink) <= BUFFER_SIZE

\* C6: while the provider call for one symbol is pending, the fetch for any
\* other symbol requested in the same tick can start.
C6_FetchesIndependent ==
    \A k \in 1..Len(dlMailbox) :
        ( /\ dlPc = "fetching"
          /\ dlMailbox[k].symbol # dlMsg[1].symbol
          /\ dlMailbox[k].cycle = dlMsg[1].cycle )
        => ENABLED DlBegin

\* the Quotes a handler of StockDataDownloader is to publish: labelled with
\* the request's symbol, empty unless the provider answered with quotes
ExpectedQuotes ==
    [ symbol |-> dlMsg[1].symbol,
      quotes |-> IF dlResult[1].kind = "ok" THEN dlResult[1].quotes ELSE <<>>,
      cycle |-> dlMsg[1].cycle ]

\* C7 as stated: every handling of a QuoteRequest that completes has
\* published exactly one Quotes, labelled with the request's symbol and empty
\* when the provider call failed.
C7_ExactlyOneQuotes ==
    [][ (dlPc # "idle" /\ dlPc' = "idle") =>
            (dlPc = "publish" /\ procMailbox' = Append(procMailbox, ExpectedQuotes)) ]_vars

\* C7 amended: a handling of a QuoteRequest publishes at most one Quotes, as
\* its last step, and exactly one unless the publish itself fails; the Quotes
\* is labelled with the request's symbol and is empty when the provider call
\* failed or its response held no quotes; only such Quotes reach the
\* StockDataProcessor.
C7_QuotesUnlessPublishFails ==
    [][ /\ (dlPc = "publish" /\ dlPc' = "idle") =>
               procMailbox' = Append(procMailbox, ExpectedQuotes)
        /\ (dlPc = "publish" /\ dlPc' = "eprint") => procMailbox' = procMailbox
        /\ (dlPc = "eprint" /\ dlPc' = "idle") => procMailbox' = procMailbox
        /\ Len(procMailbox') > Len(procMailbox) => (dlPc = "publish" /\ dlPc' = "idle")
      ]_vars

C7_Witness ==
    /\ procMailbox # <<>>
    /\ Last(procMailbox).quotes = <<>>
    /\ dlPc = "publish"
    /\ dlResult[1].kind = "err"
    /\ dlMsg[1].symbol # Last(procMailbox).symbol

\* the step in which StockDataProcessor takes a Quotes off its mailbox
ProcTakes == procMailbox # <<>> /\ procMailbox' = Tail(procMailbox)

\* nothing is published to the subscribers of PerformanceIndicators
NoRecordOut ==
    piLog' = piLog /\ bufMailbox' = bufMailbox /\ fileMailbox' = fileMailbox

\* one record for the symbol and cycle of the Quotes taken is published
OneRecordOut ==
    /\ Len(piLog') = Len(piLog) + 1
    /\ Last(piLog').symbol = Head(procMailbox).symbol
    /\ Last(piLog').cycle = Head(procMailbox).cycle
    /\ bufMailbox' = Append(bufMailbox, PIMsg(Last(piLog')))

SymbolCycle(s) == [k \in 1..Len(s) |-> <<s[k].symbol, s[k].cycle>>]

\* C8 as stated: exactly one record is published for each non-empty Quotes
\* processed and none for an empty one.
C8_ExactlyOneRecord ==
    [][ ProcTakes =>
            IF Head(procMailbox).quotes = <<>> THEN NoRecordOut ELSE OneRecordOut ]_vars

\* C8 amended: for an empty Quotes nothing is published; for a non-empty one
\* exactly one record is published unless the publish itself fails, and then
\* none; the buffer gets at most one record per symbol and cycle, and only
\* records that were published.
C8_OneRecordUnlessPublishFails ==
    /\ [][ ProcTakes =>
               IF Head(procMailbox).quotes = <<>>
               THEN NoRecordOut /\ procPc' = "idle"
               ELSE \/ OneRecordOut /\ procPc' = "idle"
                    \/ NoRecordOut /\ procPc' = "eprint" ]_vars
    /\ [](NoRepeat(SymbolCycle(pushed \o PendingPush)))
    /\ [](IsPrefix(pushed \o PendingPush, piLog))

C8_Witness ==
    /\ procMailbox # <<>>
    /\ Head(procMailbox).quotes = <<>>
    /\ Head(procMailbox).symbol = "AAPL"
    /\ Len(procMailbox) = 2
    /\ procMailbox[2].quotes # <<>>
    /\ procMailbox[2].cycle = Head(procMailbox).cycle

\* the publish calls of tick t
OfTick(t) == SelectSeq(qrLog, LAMBDA e : e.cycle = t)

\* tick t has run its for loop to the end or has broken out of it
TickOver(t) == t < tick \/ (t = tick /\ schedPc # "publish")

\* C9: in every tick in which no publish fails, exactly one QuoteRequest is
\* published for each entry of Symbols; the requests of a tick carry the same
\* `to`, the time read at the start of the tick, and every request of every
\* tick carries the `from` fixed at startup.
C9_OneRequestPerSymbol ==
    /\ \A t \in 1..tick :
           (TickOver(t) /\ \A k \in 1..Len(OfTick(t)) : OfTick(t)[k].ok) =>
               /\ [k \in 1..Len(OfTick(t)) |-> OfTick(t)[k].req.symbol] = Symbols
               /\ \A k \in 1..Len(OfTick(t)) : OfTick(t)[k].req.to = StartTime + t
    /\ \A k \in 1..Len(qrLog) : qrLog[k].req.from = from
    /\ \A k \in 1..Len(dlMailbox) :
           \E j \in 1..Len(qrLog) : qrLog[j].ok /\ qrLog[j].req = dlMailbox[k]

C9_Witness ==
    /\ tick = 2
    /\ Len(qrLog) = 3
    /\ \A k \in 1..3 : qrLog[k].ok
    /\ qrLog[1].req.to = qrLog[2].req.to
    /\ qrLog[3].req.to # qrLog[1].req.to

\* C10: BufferSink and FileSink each handle every published record exactly
\* once and in publish order: the records pushed and the rows written are
\* prefixes of what was published, what is missing from either still waits in
\* its mailbox, and a drain changes neither.
C10_BothSinksGetAll ==
    LET published == [k \in 1..Len(piLog) |-> FormatRow(piLog[k])]
    IN /\ pushed \o PendingPush = piLog
       /\ rows \o [k \in 1..Len(fileMailbox) |-> FormatRow(fileMailbox[k])] = published
       /\ (PendingPush = <<>> /\ fileMailbox = <<>>) =>
              rows = [k \in 1..Len(pushed) |-> FormatRow(pushed[k])]

C10_Witness ==
    /\ Len(pushed) = 3
    /\ Len(rows) = 3
    /\ Len(drained) = 2
    /\ rows = [k \in 1..3 |-> FormatRow(pushed[k])]

\* the path parameters of Params that are decimal numerals of a usize
Numerals == {"0", "2"}

\* the BufferDataRequests of client c that BufferSink holds or is handling
RequestsOf(c) ==
    Len(SelectSeq(bufMailbox, LAMBDA m : m[1] = "bdr" /\ m[3] = c))
    + (IF drainMsg # None /\ drainMsg[1][3] = c THEN 1 ELSE 0)

\* C11: a tail request whose n is no numeral ends in the error response and
\* nothing else: the step that receives it and the step that answers it leave
\* BufferSink's mailbox, data_sink and every other pipeline variable as they
\* were, and while it is being answered BufferSink holds no BufferDataRequest
\* of that client.
C11_MalformedLeavesPipeline ==
    /\ [][\A c \in Callers :
            (callerPc[c] = "idle" /\ param'[c] # None /\ param'[c][1] \notin Numerals)
                => (callerPc'[c] = "failed" /\ UNCHANGED pipelineVars)]_vars
    /\ [][\A c \in Callers :
            (callerPc[c] = "failed" /\ callerPc'[c] # "failed")
                => (callerPc'[c] = "idle" /\ UNCHANGED pipelineVars)]_vars
    /\ [](\A c \in Callers : callerPc[c] = "failed" => RequestsOf(c) = 0)

C11_Witness ==
    \E c \in Callers :
        /\ callerPc[c] = "failed"
        /\ param[c] = Some("x")
        /\ data_sink # <<>>
        /\ PendingPush # <<>>

\* C12: under fair scheduling of BufferSink alone, every tail task that has
\* sent its BufferDataRequest eventually has the call's result, which is what
\* was resident when the drain read the length (C3), whether or not the
\* provider ever answers the fetch that is pending.
C12_QueryAnswered ==
    \A c \in Callers : (callerPc[c] = "awaiting") ~> (callerPc[c] = "respond")

\* a call has returned with no record while a fetch is pending
C12_Witness ==
    \E c \in Callers :
        /\ callerPc[c] = "respond"
        /\ amount[c] = 2
        /\ data[c] = <<>>
        /\ dlPc = "fetching"
        /\ pushed = <<>>

\* S[a] + ... + S[b]
RECURSIVE SumFromTo(_, _, _)
SumFromTo(S, a, b) == IF a > b THEN 0 ELSE S[a] + SumFromTo(S, a + 1, b)

\* the quotient q, a pair <<numerator, denominator>>, is the number a / b
IsQuotient(q, a, b) == q[2] # 0 /\ b # 0 /\ q[1] * b = a * q[2]

\* C13: WindowedSMA(w) on S returns None exactly when S is empty or w <= 1;
\* otherwise it returns max(0, Len(S) - w + 1) values, the k-th being the
\* mean of S[k..k+w-1]; for w > Len(S) that is Some of the empty sequence,
\* which is not None.
C13_WindowedSMA ==
    sigCalled = "WindowedSMA" =>
        LET S == sigSeries
            w == sigWindow
            count == IF Len(S) - w + 1 > 0 THEN Len(S) - w + 1 ELSE 0
        IN /\ (sigResult = None) <=> (S = <<>> \/ w <= 1)
           /\ sigResult # None =>
                  /\ Len(sigResult[1]) = count
                  /\ \A k \in 1..count :
                         IsQuotient(sigResult[1][k], SumFromTo(S, k, k + w - 1), w)
           /\ (S # <<>> /\ w > 1 /\ w > Len(S)) =>
                  (sigResult = Some(<<>>) /\ sigResult # None)

\* two windows of two samples over a series of three
C13_Witness ==
    /\ sigCalled = "WindowedSMA"
    /\ sigSeries = <<1, 2, -2>>
    /\ sigWindow = 2
    /\ sigResult = Some(<< <<3, 2>>, <<0, 2>> >>)

\* C14: PriceDifference on S returns None exactly when S is empty; otherwise
\* it returns (last - first, (last - first) / d) with d = first, or 1 when
\* first is 0; a series of one sample gives (0, 0).
C14_PriceDifference ==
    sigCalled = "PriceDifference" =>
        LET S == sigSeries
        IN /\ (sigResult = None) <=> (S = <<>>)
           /\ S # <<>> =>
                  LET first == S[1]
                      last == S[Len(S)]
                      d == IF first = 0 THEN 1 ELSE first
                  IN /\ sigResult[1][1] = last - first
                     /\ IsQuotient(sigResult[1][2], last - first, d)
           /\ Len(S) = 1 => (sigResult[1][1] = 0 /\ IsQuotient(sigResult[1][2], 0, 1))

\* a series that starts at 0
C14_Witness ==
    /\ sigCalled = "PriceDifference"
    /\ sigSeries = <<0, 1, 2>>
    /\ sigResult = Some(<<2, <<2, 1>> >>)

\* C15: MaxPrice and MinPrice return None exactly when the series is empty;
\* on a non-empty series the result is one of its samples, no sample is
\* above the MaxPrice result and none is below the MinPrice result.
C15_MaxMinInSeries ==
    sigCalled \in {"MaxPrice", "MinPrice"} =>
        LET S == sigSeries
        IN /\ (sigResult = None) <=> (S = <<>>)
           /\ S # <<>> =>
                  /\ \E k \in 1..Len(S) : S[k] = sigResult[1]
                  /\ sigCalled = "MaxPrice" => \A k \in 1..Len(S) : S[k] <= sigResult[1]
                  /\ sigCalled = "MinPrice" => \A k \in 1..Len(S) : S[k] >= sigResult[1]

\* C16: a failed publish of a QuoteRequest is the last publish call of main:
\* it ends the loop, and from then on no request is published or delivered
\* and no tick starts.
C16_LoopEndsOnPublishError ==
    /\ [](\A k \in 1..Len(qrLog) :
            ~qrLog[k].ok => (k = Len(qrLog) /\ schedPc = "done"))
    /\ [][schedPc = "done" =>
            /\ schedPc' = "done"
            /\ qrLog' = qrLog
            /\ tick' = tick
            /\ Len(dlMailbox') <= Len(dlMailbox)]_vars

\* the publish for the first symbol of the first tick failed; the request
\* for the second symbol was never published, and the two clients went on
C16_Witness ==
    /\ schedPc = "done"
    /\ Len(qrLog) = 1
    /\ ~qrLog[1].ok
    /\ qrLog[1].req.symbol = Symbols[1]
    /\ dlMailbox = <<>>
    /\ queries = MaxQueries

\* C17: the loop of main waits for the interval only: whenever it is at
\* interval.next() the next tick can start, and whenever it is in the for
\* loop the next request can be published, whatever StockDataDownloader and
\* StockDataProcessor are doing or have queued (the bound on the requests
\* explored aside).
C17_TicksNotChained ==
    /\ (schedPc = "wait" /\ Len(qrLog) < MaxRequests) => ENABLED SchedTick
    /\ (schedPc = "publish" /\ Len(qrLog) < MaxRequests) => ENABLED SchedPublish

\* tick 2 has published a request while the first request of tick 1 is still
\* at the provider and the second has not been taken
C17_Witness ==
    /\ tick = 2
    /\ dlPc = "fetching"
    /\ dlMsg[1].cycle = 1
    /\ Len(dlMailbox) = 2
    /\ dlMailbox[1].cycle = 1
    /\ dlMailbox[2].cycle = 2
    /\ piLog = <<>>

\* sample k of Q comes after sample j in the order "ascending by timestamp,
\* equal timestamps in arrival order"
After(Q, k, j) ==
    \/ Q[k].timestamp > Q[j].timestamp
    \/ (Q[k].timestamp = Q[j].timestamp /\ k > j)

\* the sample of Q that no other comes after, and the one that comes after no other
Latest(Q) == CHOOSE k \in 1..Len(Q) : \A j \in 1..Len(Q) : j # k => After(Q, k, j)
Earliest(Q) == CHOOSE k \in 1..Len(Q) : \A j \in 1..Len(Q) : j # k => After(Q, j, k)

\* the step is StockDataProcessor publishing the record of the Quotes at the
\* head of its mailbox
RecordPublished == piLog' # piLog

\* C18: the record published for a Quotes carries the greatest timestamp of
\* its samples, the close of the sample with that timestamp that arrived
\* last, and the change from the close of the sample with the least timestamp
\* that arrived first to that last close, relative to the former (to 1 when
\* it is 0), whatever the order in which the samples arrived.
C18_SortedStable ==
    [][RecordPublished =>
         LET Q == Head(procMailbox).quotes
             rec == piLog'[Len(piLog')]
             hi == Latest(Q)
             lo == Earliest(Q)
             d == IF Q[lo].close = 0 THEN 1 ELSE Q[lo].close
         IN /\ \A k \in 1..Len(Q) : Q[k].timestamp <= rec.timestamp
            /\ rec.timestamp = Q[hi].timestamp
            /\ rec.price = Q[hi].close
            /\ IsQuotient(rec.pct_change, Q[hi].close - Q[lo].close, d)]_vars

\* The record of a series whose first sample in timestamp order closes at 2,
\* whose last closes at 1 and which has a sample closing at 0: it has three
\* samples, and with timestamps 1 and 2 only, two of them share a timestamp.
C18_Witness ==
    /\ Len(piLog) = 1
    /\ piLog[1].timestamp = 2
    /\ piLog[1].price = 1
    /\ piLog[1].pct_change = <<-1, 2>>
    /\ piLog[1].period_min = 0
    /\ piLog[1].period_max = 2

\* the closes of the w latest samples of Q, added up
LatestSum(Q, w) ==
    LET late == {k \in 1..Len(Q) :
                    Cardinality({j \in 1..Len(Q) : After(Q, j, k)}) < w}
        closes == [k \in 1..Len(Q) |-> IF k \in late THEN Q[k].close ELSE 0]
    IN SumFromTo(closes, 1, Len(Q))

\* C19: the last_sma of a published record is the mean of the closes of the
\* 30 latest samples when the series has 30 samples or more, and 0 when it
\* has fewer; a series of 1 to 29 samples still gets its record (unless the
\* publish itself fails).
C19_LastSMA ==
    /\ [][RecordPublished =>
            LET Q == Head(procMailbox).quotes
                rec == piLog'[Len(piLog')]
            IN IF Len(Q) >= 30
               THEN IsQuotient(rec.last_sma, LatestSum(Q, 30), 30)
               ELSE IsQuotient(rec.last_sma, 0, 1)]_vars
    /\ [][(procMailbox # <<>> /\ procMailbox' = Tail(procMailbox)
             /\ Len(Head(procMailbox).quotes) \in 1..29)
            => (Len(piLog') = Len(piLog) + 1 \/ procPc' = "eprint")]_vars

\* the record of the 31 samples that arrived latest first: closes 30, ..., 1
\* are the 30 latest
C19_Witness ==
    /\ Len(piLog) = 1
    /\ piLog[1].timestamp = 31
    /\ piLog[1].price = 1
    /\ piLog[1].last_sma = <<465, 30>>

\* the publish calls of main that succeeded, in order
Published == SelectSeq(qrLog, LAMBDA e : e.ok)

\* record r derives from the k-th request published
DerivesFrom(r, k) ==
    /\ Published[k].req.symbol = r.symbol
    /\ Published[k].cycle = r.cycle

PositionOf(r) == CHOOSE k \in 1..Len(Published) : DerivesFrom(r, k)

IndexOf(symbol) == CHOOSE k \in 1..Len(Symbols) : Symbols[k] = symbol

\* C20: the records pushed into data_sink derive from distinct published
\* requests and were pushed in the order in which main published those
\* requests; so a record of an earlier tick was pushed before any record of a
\* later tick, and within a tick the records were pushed in the order of the
\* configured symbols.
C20_PipelineOrder ==
    /\ \A j \in 1..Len(pushed) : \E k \in 1..Len(Published) : DerivesFrom(pushed[j], k)
    /\ \A j, k \in 1..Len(pushed) :
           j < k =>
               /\ PositionOf(pushed[j]) < PositionOf(pushed[k])
               /\ pushed[j].cycle <= pushed[k].cycle
               /\ pushed[j].cycle = pushed[k].cycle =>
                      IndexOf(pushed[j].symbol) < IndexOf(pushed[k].symbol)

\* both records of tick 1 and the first of tick 2 have been pushed
C20_Witness ==
    /\ Len(pushed) = 3
    /\ pushed[1].symbol = Symbols[1] /\ pushed[1].cycle = 1
    /\ pushed[2].symbol = Symbols[2] /\ pushed[2].cycle = 1
    /\ pushed[3].symbol = Symbols[1] /\ pushed[3].cycle = 2

====
